---- MODULE Spec2Model ----
(***************************************************************************)
(* db-migrator: the migration coordinator (DatabaseMigrator), the per-table *)
(* TableMigrator with its byte-budgeted batch loader, the destination      *)
(* DatabaseInserter and the ConstraintsCreator, as one state machine.      *)
(*                                                                         *)
(* Identifiers are sequences of one-character strings, SQL texts are       *)
(* sequences of tokens whose byte lengths are computed as the code builds  *)
(* them.  Every await point of the code is one step of the model.          *)
(***************************************************************************)
EXTENDS Integers, Sequences, FiniteSets, TLC

(***************************************************************************)
(* Characters and identifier formatting (common/helpers.rs)                *)
(***************************************************************************)
\* char::is_uppercase follows Unicode's Uppercase property: the ASCII
\* capitals and, of the other capitals, the one the model alphabet holds
UpperChars ==
    {"A","B","C","D","E","F","G","H","I","J","K","L","M",
     "N","O","P","Q","R","S","T","U","V","W","X","Y","Z","É"}

is_uppercase(c) == c \in UpperChars

\* char::to_ascii_lowercase maps A..Z only and leaves every other character

to_ascii_lowercase(c) ==
    CASE c = "A" -> "a" [] c = "B" -> "b" [] c = "C" -> "c" [] c = "D" -> "d"
      [] c = "E" -> "e" [] c = "F" -> "f" [] c = "G" -> "g" [] c = "H" -> "h"
      [] c = "I" -> "i" [] c = "J" -> "j" [] c = "K" -> "k" [] c = "L" -> "l"
      [] c = "M" -> "m" [] c = "N" -> "n" [] c = "O" -> "o" [] c = "P" -> "p"
      [] c = "Q" -> "q" [] c = "R" -> "r" [] c = "S" -> "s" [] c = "T" -> "t"
      [] c = "U" -> "u" [] c = "V" -> "v" [] c = "W" -> "w" [] c = "X" -> "x"
      [] c = "Y" -> "y" [] c = "Z" -> "z" [] OTHER -> c

\* str::to_lowercase, used by reset_tables to compare table names, follows
\* Unicode
to_lowercase(s) ==
    [i \in 1..Len(s) |-> IF s[i] = "É" THEN "é" ELSE to_ascii_lowercase(s[i])]

\* mutant: only an underscore before the capital keeps it joined to what
\* precedes, a capital before it does not
snake_piece_splitting_capitals(s, i) ==
    IF is_uppercase(s[i])
    THEN (IF i > 1 /\ ~(s[i-1] = "_")
          THEN <<"_">> ELSE <<>>) \o <<to_ascii_lowercase(s[i])>>
    ELSE <<s[i]>>

\* One iteration of the loop of format_snake_case: the text pushed for the
\* character at position i, given the character before it.
snake_piece(s, i) ==
    IF is_uppercase(s[i])
    THEN (IF i > 1 /\ ~(s[i-1] = "_" \/ is_uppercase(s[i-1]))
          THEN <<"_">> ELSE <<>>) \o <<to_ascii_lowercase(s[i])>>
    ELSE <<s[i]>>

RECURSIVE snake_from(_, _)
snake_from(s, i) ==
    IF i > Len(s) THEN <<>> ELSE snake_piece(s, i) \o snake_from(s, i + 1)

format_snake_case(s) == snake_from(s, 1)

RECURSIVE SeqSum(_)
SeqSum(s) == IF s = <<>> THEN 0 ELSE Head(s) + SeqSum(Tail(s))

SeqToSet(s) == {s[i] : i \in 1..Len(s)}

\* Vec::retain / Iterator::filter on a sequence, keeping the order
RECURSIVE Retain(_, _)
Retain(s, keep) ==
    IF s = <<>> THEN <<>>
    ELSE (IF Head(s) \in keep THEN <<Head(s)>> ELSE <<>>) \o Retain(Tail(s), keep)

\* byte length of strs.join(sep) for strings of the given byte lengths
JoinLen(lens, sepLen) ==
    IF lens = <<>> THEN 0 ELSE SeqSum(lens) + sepLen * (Len(lens) - 1)

(***************************************************************************)
(* The source database and the type mappings the runs are checked on       *)
(***************************************************************************)
OrderItem == <<"o", "I">>        \* has a foreign key to Cust
Order_Item == <<"o", "_", "i">>  \* has a foreign key to AuditLog
Cust == <<"c", "u">>
AuditLog == <<"l", "g">>         \* in the source, never whitelisted
Ghost == <<"z", "z">>            \* whitelisted, absent from the source
Legacy == <<"k", "p">>           \* a destination table no source table names

\* Option<T>
None == [some |-> FALSE, v |-> <<>>]
Some(x) == [some |-> TRUE, v |-> x]

NoConstraint == [kind |-> "None"]
PrimaryKey == [kind |-> "PrimaryKey"]
ForeignKey(t, c) == [kind |-> "ForeignKey", referenced_table |-> t, referenced_column |-> c]

\* struct ColumnSchema
ColumnSchema(name, type, length, precision, scale, nullable, con) ==
    [column_name |-> name, data_type |-> type, character_maximum_length |-> length,
     numeric_precision |-> precision, numeric_scale |-> scale, is_nullable |-> nullable,
     constraints |-> con]

\* a column as INFORMATION_SCHEMA reports an int column: no character
\* length, precision 10, scale 0
Column(name, type, con) == ColumnSchema(name, type, None, Some(10), Some(0), FALSE, con)

\* The columns INFORMATION_SCHEMA reports for a source table.
SourceColumns(t) ==
    CASE t = OrderItem -> << Column(<<"i","d">>, "int", PrimaryKey),
                             Column(<<"c","I","d">>, "int", ForeignKey(Cust, <<"i","d">>)) >>
      [] t = Order_Item -> << Column(<<"i","d">>, "int", NoConstraint),
                              Column(<<"l","g">>, "int", ForeignKey(AuditLog, <<"i","d">>)) >>
      [] t = Cust -> << Column(<<"i","d">>, "int", PrimaryKey) >>
      [] OTHER -> << Column(<<"i","d">>, "int", NoConstraint) >>

\* data types that have an entry in mappings.toml; "geography" stands for
\* a source type with no entry
MappedTypes == {"int", "varchar"}
DataTypes == MappedTypes \cup {"geography"}


\* a u32, kept as its two 16-bit halves (high, low)
u32(n) == <<n \div 65536, n % 65536>>
U32Max == <<65535, 65535>>

\* `value as i32` of a u32: the same 32 bits read as two's complement
as_i32(value) ==
    IF value[1] >= 32768 THEN (value[1] - 65536) * 65536 + value[2]
    ELSE value[1] * 65536 + value[2]

\* Option<u32>::map(|value| value as i32)
map_as_i32(opt) == IF opt.some THEN Some(as_i32(opt.v)) ELSE None

\* struct Mapping
Mapping(to_type, type_parameters, precision, scale, max_length) ==
    [to_type |-> to_type, type_parameters |-> type_parameters,
     numeric_precision |-> precision, numeric_scale |-> scale,
     max_characters_length |-> max_length]

\* the mappings the runs are checked with; mappings.get(data_type) is
\* Mappings[data_type] for a data type of its domain and None for any other
Mappings ==
    [ty \in MappedTypes |->
        IF ty = "int" THEN Mapping("int", FALSE, None, None, None)
        ELSE Mapping("varchar", TRUE, None, None, Some(u32(255)))]

(***************************************************************************)
(* Schema mapping (migrate/table_schema_mapper.rs)                         *)
(***************************************************************************)
\* the match on new_constraints: a ForeignKey is snake-cased when format is set
map_constraint(con, format) ==
    IF con.kind = "ForeignKey" /\ format
    THEN ForeignKey(format_snake_case(con.referenced_table),
                    format_snake_case(con.referenced_column))
    ELSE con

\* Option::or / Option::or_else
or(a, b) == IF a.some THEN a ELSE b

\* mutant: the length -1 of a MAX column is dropped like any other length
\* outside 1..=65535
map_length_dropping_max(length) ==
    IF length >= 1 /\ length <= 65535 THEN Some(length) ELSE None

\* the and_then closure on character_maximum_length: -1 (the length of a
\* MAX column) becomes 65535, a length of 1..=65535 is kept, any other is
\* dropped
map_length(length) ==
    IF length = -1 THEN Some(65535)
    ELSE IF length >= 1 /\ length <= 65535 THEN Some(length)
    ELSE None

new_characters_maximum_length(column, mapping) ==
    or(IF column.character_maximum_length.some
       THEN map_length(column.character_maximum_length.v) ELSE None,
       map_as_i32(mapping.max_characters_length))

new_numeric_precision(column, mapping) ==
    or(column.numeric_precision, mapping.numeric_precision)

\* mutant: a scale of 0 is kept like any other scale
new_numeric_scale_keeping_zero(column, mapping) ==
    or(column.numeric_scale, map_as_i32(mapping.numeric_scale))

new_numeric_scale(column, mapping) ==
    IF column.numeric_scale = Some(0) THEN None
    ELSE or(column.numeric_scale, map_as_i32(mapping.numeric_scale))

\* mutant: the type parameters are computed whatever type_parameters is
map_column_always_with_parameters(mappings, column, format) ==
    LET mapping == mappings[column.data_type]
    IN  ColumnSchema(
            IF format THEN format_snake_case(column.column_name) ELSE column.column_name,
            mapping.to_type,
            new_characters_maximum_length(column, mapping),
            new_numeric_precision(column, mapping),
            new_numeric_scale(column, mapping),
            column.is_nullable,
            map_constraint(column.constraints, format))

\* the closure of map_schema for one column whose data type has a mapping
map_column(mappings, column, format) ==
    LET mapping == mappings[column.data_type]
    IN  ColumnSchema(
            IF format THEN format_snake_case(column.column_name) ELSE column.column_name,
            mapping.to_type,
            IF ~mapping.type_parameters THEN None
            ELSE new_characters_maximum_length(column, mapping),
            IF ~mapping.type_parameters THEN None
            ELSE new_numeric_precision(column, mapping),
            IF ~mapping.type_parameters THEN None
            ELSE new_numeric_scale(column, mapping),
            column.is_nullable,
            map_constraint(column.constraints, format))

\* mappings.get(..).unwrap_or_else(|| panic!(..)) panics for some column
map_schema_panics(mappings, table_schema) ==
    \E i \in 1..Len(table_schema) : table_schema[i].data_type \notin DOMAIN mappings

\* mutant: the mapped columns are collected in reverse order
map_schema_reversed(mappings, table_schema, format) ==
    [i \in 1..Len(table_schema) |->
        map_column(mappings, table_schema[Len(table_schema) + 1 - i], format)]

map_schema(mappings, table_schema, format) ==
    [i \in 1..Len(table_schema) |-> map_column(mappings, table_schema[i], format)]

(***************************************************************************)
(* Query texts (query.rs), as byte lengths and as what they ask for        *)
(***************************************************************************)
\* "INSERT INTO `{}` ({}) VALUES".len()
build_insert_statement_len(table_name, schema) ==
    13 + Len(table_name) + 3
       + JoinLen([i \in 1..Len(schema) |-> Len(schema[i].column_name)], 2) + 8

\* mutant: the ForeignKey arm yields no clause, like the PrimaryKey arm
constraint_clauses_without_foreign_keys(schema) ==
    {i \in 1..Len(schema) : schema[i].constraints.kind \notin {"None", "PrimaryKey", "ForeignKey"}}

\* the ADD ... clauses of build_create_constraints: one per column whose
\* constraint is not a primary key (and not absent)
constraint_clauses(schema) ==
    {i \in 1..Len(schema) : schema[i].constraints.kind \notin {"None", "PrimaryKey"}}

\* build_create_constraints returns None when no clause is left
build_create_constraints_is_some(schema) == constraint_clauses(schema) # {}

\* the statements a destination session is sent
BeginStmt == "BEGIN"
CommitStmt == "COMMIT"
RollbackStmt == "ROLLBACK"
FkChecksOff == "SET FOREIGN_KEY_CHECKS=0"
FkChecksOn == "SET FOREIGN_KEY_CHECKS=1"
AlterTableStmt == "ALTER TABLE"
InsertStmt == "INSERT INTO"

\* the statements of the text of build_create_constraints:
\* "SET FOREIGN_KEY_CHECKS=0; ALTER TABLE `{}` {}"
build_create_constraints_statements == <<FkChecksOff, AlterTableStmt>>

\* the tables the ALTER TABLE statement references through foreign keys
alter_referenced_tables(schema) ==
    {schema[i].constraints.referenced_table :
        i \in {j \in constraint_clauses(schema) : schema[j].constraints.kind = "ForeignKey"}}

(***************************************************************************)
(* Batch texts (migrate/table_migrator.rs)                                 *)
(***************************************************************************)
RESERVED_BYTES == 10

StmtTok == [kind |-> "stmt", idx |-> 0]
CommaTok == [kind |-> "comma", idx |-> 0]
RowTok(i) == [kind |-> "row", idx |-> i]

\* format!("({}) ", row_values.join(", ")).len(), a row being the byte
\* lengths of its literals
value_set_len(row) == 1 + JoinLen(row, 2) + 2

TokenBytes(tok, stmt_len, rows) ==
    CASE tok.kind = "stmt" -> stmt_len
      [] tok.kind = "comma" -> 1
      [] OTHER -> value_set_len(rows[tok.idx])

\* insert_query.len()
QueryBytes(q, stmt_len, rows) ==
    SeqSum([i \in 1..Len(q) |-> TokenBytes(q[i], stmt_len, rows)])

\* the row tuples of a batch text, in order
QueryRows(q) == LET idx == {i \in 1..Len(q) : q[i].kind = "row"}
                IN  Cardinality(idx)


(***************************************************************************)
(* Bounds and the data of the checked runs                                 *)
(***************************************************************************)
MaxConcurrentTasks == 2   \* options.max_concurrent_tasks ranges over 1..this
RunPacketBytes == 56      \* options.max_packet_bytes of the concurrent runs
MaxRows == 3              \* longest row sequence of the batch-loader runs

\* INFORMATION_SCHEMA.TABLES of the source, in the order it is returned
SourceTables == <<OrderItem, Order_Item, Cust, AuditLog>>
TableNames == SeqToSet(SourceTables)

\* every name a destination table can have
DestNames == TableNames \cup {format_snake_case(t) : t \in TableNames} \cup {Legacy}

\* a destination before the run: the tables of `present`, populated
Destination(present) ==
    [d \in DestNames |->
        [exists |-> d \in present,
         rows |-> IF d \in present THEN Len(d) ELSE 0,
         fks |-> {}]]

InitialDest == Destination({Cust, AuditLog, Legacy})
RerunDest == Destination({Order_Item, Cust, AuditLog, Legacy})

\* rows of the concurrent runs: a row is the byte lengths of its literals
RunRows ==
    [t \in TableNames |->
        CASE t = OrderItem -> << <<1, 1>>, <<1, 1>> >>
          [] t = Order_Item -> << <<1, 1>> >>
          [] t = Cust -> << <<1>> >>
          [] OTHER -> << <<1>> >>]

\* rows and packet sizes of the batch-loader runs
RowShapes == {<<1, 1>>, <<4, 4>>, <<12, 12>>}
PacketSizes == {50, 56, 64, 65, 72}
RowSeqs == UNION {[1..n -> RowShapes] : n \in 0..MaxRows}

(***************************************************************************)
(* State                                                                   *)
(***************************************************************************)
VARIABLES
    options,             \* MigrationOptions
    max_allowed_packet,  \* @@max_allowed_packet of the destination
    source_rows,         \* the rows SELECT * streams, per source table
    dest0,               \* the destination tables before the run
    dest,                \* destination tables: exists, row count, foreign keys
    run_pc,              \* where DatabaseMigrator::run is
    run_result,          \* "none", "ok", "err" or "panic"
    run_error,           \* which bail!/? ended the run
    tables,              \* the whitelisted source tables (migrate_tables)
    formatted_tables,    \* format_table_names of all source tables
    spawned,             \* number of migration tasks spawned so far
    permits,             \* available permits of the semaphore
    task,                \* per source table: the spawned migration task
    ctask,               \* per source table: the constraint task
    executed,            \* per source table: the batches handed to
                         \* execute_transactional_query, in order
    call                 \* a call of a helper function on its own: the
                         \* function, its argument and what it returned

vars == <<options, max_allowed_packet, source_rows, dest0, dest, run_pc, run_result,
          run_error, tables, formatted_tables, spawned, permits, task, ctask,
          executed, call>>

\* what no step of a run writes
config_vars == <<options, max_allowed_packet, source_rows, dest0, call>>

\* no helper function is called on its own during a run
NoCall == [fn |-> "none", arg |-> <<>>, ret |-> <<>>]

NewTask ==
    [pc |-> "unspawned", outcome |-> "none", error |-> "none",
     table_exists |-> FALSE, create_issued |-> FALSE, created |-> FALSE,
     insert_query |-> <<>>, total_bytes |-> 0, transaction_count |-> 0,
     total_transaction_count |-> 0, pos |-> 0]

NewCTask == [pc |-> "none", outcome |-> "none", alter |-> "none", session |-> <<>>]

InitRun ==
    /\ dest = dest0
    /\ run_pc = "preflight"
    /\ run_result = "none"
    /\ run_error = "none"
    /\ tables = <<>>
    /\ formatted_tables = <<>>
    /\ spawned = 0
    /\ permits = 0
    /\ task = [t \in TableNames |-> NewTask]
    /\ ctask = [t \in TableNames |-> NewCTask]
    /\ executed = [t \in TableNames |-> <<>>]

\* Concurrent runs: three whitelisted tables that are present, one that is
\* absent from the source, or a whitelist naming no present table.
Init ==
    /\ options \in [drop : BOOLEAN, constraints : BOOLEAN, format_snake_case : BOOLEAN,
                    max_concurrent_tasks : 1..MaxConcurrentTasks,
                    max_packet_bytes : {RunPacketBytes},
                    whitelisted_tables : {<<OrderItem, Order_Item, Cust, Ghost>>, <<Ghost>>}]
    /\ max_allowed_packet \in {options.max_packet_bytes - 1, options.max_packet_bytes}
    /\ source_rows = RunRows
    /\ dest0 = InitialDest
    /\ call = NoCall
    /\ InitRun

\* The concurrent runs that get past Preflight, keep the existing tables
\* and the names of the source tables, and apply constraints.
InitFair ==
    /\ options \in [drop : {FALSE}, constraints : {TRUE}, format_snake_case : {FALSE},
                    max_concurrent_tasks : 1..MaxConcurrentTasks,
                    max_packet_bytes : {RunPacketBytes},
                    whitelisted_tables : {<<OrderItem, Order_Item, Cust, Ghost>>}]
    /\ max_allowed_packet = options.max_packet_bytes
    /\ source_rows = RunRows
    /\ dest0 = InitialDest
    /\ call = NoCall
    /\ InitRun

\* Batch-loader runs: one whitelisted table, every row sequence up to
\* MaxRows rows and every packet size of PacketSizes.
InitLoad ==
    /\ options \in [drop : BOOLEAN, constraints : BOOLEAN, format_snake_case : BOOLEAN,
                    max_concurrent_tasks : {1},
                    max_packet_bytes : PacketSizes,
                    whitelisted_tables : {<<Order_Item, Ghost>>}]
    /\ max_allowed_packet \in {options.max_packet_bytes - 1, options.max_packet_bytes}
    /\ \E rs \in RowSeqs : source_rows = [t \in TableNames |-> IF t = Order_Item THEN rs ELSE <<>>]
    /\ dest0 \in {InitialDest, RerunDest}
    /\ call = NoCall
    /\ InitRun

(***************************************************************************)
(* DatabaseMigrator (migrate/migrator.rs)                                  *)
(***************************************************************************)
\* mutant: the comparison also rejects a packet size equal to the maximum
check_packet_size_fails_at_equal(config_send_packet_size, max_allowed) ==
    config_send_packet_size >= max_allowed

\* check_packet_size bails
check_packet_size_fails(config_send_packet_size, max_allowed) ==
    config_send_packet_size > max_allowed

\* mutant: the error is recorded and the run goes on to run_migration
FailRunAndGoOn(kind) ==
    /\ run_pc' = "spawn"
    /\ run_result' = "err"
    /\ run_error' = kind

FailRun(kind) ==
    /\ run_pc' = "failed"
    /\ run_result' = "err"
    /\ run_error' = kind

\* run, up to the call of migrate_tables: get_max_allowed_packet and
\* check_packet_size
Preflight ==
    /\ run_pc = "preflight"
    /\ \E r \in {"ok", "err"} :
         IF r = "err" THEN FailRun("packet_query")
         ELSE IF check_packet_size_fails(options.max_packet_bytes, max_allowed_packet)
              THEN FailRun("packet_size")
              ELSE run_pc' = "fetch" /\ UNCHANGED <<run_result, run_error>>
    /\ UNCHANGED <<config_vars, dest, tables, formatted_tables, spawned, permits,
                   task, ctask, executed>>

format_table_names(ts, format) ==
    IF format THEN [i \in 1..Len(ts) |-> format_snake_case(ts[i])] ELSE ts

\* check_missing_tables: the whitelisted names it warns about
check_missing_tables(ts, whitelisted_tables) ==
    Retain(whitelisted_tables, SeqToSet(whitelisted_tables) \ SeqToSet(ts))

\* mutant: a whitelisted name missing from the source ends the run
FetchTablesFailingOnMissing ==
    /\ run_pc = "fetch"
    /\ \E r \in {"ok", "empty", "err"} :
         LET fetched == IF r = "empty" THEN <<>> ELSE SourceTables
             formatted == format_table_names(fetched, options.format_snake_case)
             retained == Retain(fetched, SeqToSet(options.whitelisted_tables))
         IN  IF r = "err" THEN
                 FailRun("fetch_tables") /\ UNCHANGED <<tables, formatted_tables>>
             ELSE IF fetched = <<>> THEN
                 FailRun("no_tables") /\ UNCHANGED <<tables, formatted_tables>>
             ELSE IF check_missing_tables(fetched, options.whitelisted_tables) # <<>> THEN
                 FailRun("no_whitelisted_tables") /\ UNCHANGED <<tables, formatted_tables>>
             ELSE /\ tables' = retained
                  /\ formatted_tables' = formatted
                  /\ run_pc' = "reset"
                  /\ UNCHANGED <<run_result, run_error>>
    /\ UNCHANGED <<config_vars, dest, spawned, permits, task, ctask, executed>>

\* fetch_and_format_tables
FetchTables ==
    /\ run_pc = "fetch"
    /\ \E r \in {"ok", "empty", "err"} :
         LET fetched == IF r = "empty" THEN <<>> ELSE SourceTables
             formatted == format_table_names(fetched, options.format_snake_case)
             retained == Retain(fetched, SeqToSet(options.whitelisted_tables))
         IN  IF r = "err" THEN
                 FailRun("fetch_tables") /\ UNCHANGED <<tables, formatted_tables>>
             ELSE IF fetched = <<>> THEN
                 FailRun("no_tables") /\ UNCHANGED <<tables, formatted_tables>>
             ELSE IF retained = <<>> THEN
                 FailRun("no_whitelisted_tables") /\ UNCHANGED <<tables, formatted_tables>>
             ELSE /\ tables' = retained
                  /\ formatted_tables' = formatted
                  /\ run_pc' = "reset"
                  /\ UNCHANGED <<run_result, run_error>>
    /\ UNCHANGED <<config_vars, dest, spawned, permits, task, ctask, executed>>

(***************************************************************************)
(* DatabaseInserter::reset_tables (insert/inserter.rs)                     *)
(***************************************************************************)
\* mutant: retain is skipped, every existing destination table is reset
reset_targets_unfiltered(d, ts) == {n \in DOMAIN d : d[n].exists}

\* all_tables.retain(..): the existing destination tables whose lowercased
\* name is the lowercased name of one of `ts`
reset_targets(d, ts) ==
    {n \in DOMAIN d : d[n].exists /\ \E i \in 1..Len(ts) : to_lowercase(ts[i]) = to_lowercase(n)}

\* the effect of the committed DROP TABLE / TRUNCATE TABLE statements
reset_effect(d, targets, drop) ==
    [n \in DOMAIN d |->
        IF n \in targets
        THEN [exists |-> ~drop, rows |-> 0, fks |-> IF drop THEN {} ELSE d[n].fks]
        ELSE d[n]]

ResetTables ==
    /\ run_pc = "reset"
    /\ \E r \in {"ok", "err_show_tables", "err_execute"} :
         LET targets == reset_targets(dest, formatted_tables)
         IN  IF r = "err_show_tables" THEN
                 FailRun("reset_tables") /\ UNCHANGED <<dest, permits>>
             ELSE IF targets # {} /\ r = "err_execute" THEN
                 FailRun("reset_tables") /\ UNCHANGED <<dest, permits>>
             ELSE /\ dest' = reset_effect(dest, targets, options.drop)
                  \* run_migration: Semaphore::new(max_concurrent_tasks)
                  /\ permits' = options.max_concurrent_tasks
                  /\ run_pc' = "spawn"
                  /\ UNCHANGED <<run_result, run_error>>
    /\ UNCHANGED <<config_vars, tables, formatted_tables, spawned, task, ctask, executed>>


(***************************************************************************)
(* DatabaseMigrator::run_migration: the spawn loop and the tasks           *)
(***************************************************************************)
\* the loop body: spawn the task of the next table; after the last one
\* the coordinator awaits join_all
SpawnTask ==
    /\ run_pc = "spawn"
    /\ spawned < Len(tables)
    /\ task' = [task EXCEPT ![tables[spawned + 1]].pc = "acquire"]
    /\ spawned' = spawned + 1
    /\ run_pc' = IF spawned + 1 = Len(tables) THEN "join" ELSE "spawn"
    /\ UNCHANGED <<config_vars, dest, run_result, run_error, tables, formatted_tables,
                   permits, ctask, executed>>

\* migrate_table: output_table_name
output_table_name(t) ==
    IF options.format_snake_case THEN format_snake_case(t) ELSE t

\* the schema get_table_schema returns when the first column of the table
\* has data type ty
fetched_schema(t, ty) ==
    [SourceColumns(t) EXCEPT ![1].data_type = ty]

\* migrate_table: mapped_schema (the data types of the checked tables do
\* not change a column name or constraint)
mapped_schema(t) == map_schema(Mappings, SourceColumns(t), options.format_snake_case)

insert_statement_len(t) ==
    build_insert_statement_len(output_table_name(t), mapped_schema(t))

\* The task's future ends: `drop(permit); result` when migrate_table
\* returned, the unwinding of a panic otherwise.  Both give the permit back.
\* mutant: every MigrationResult says created
task_end_always_created(tk, outcome, error) ==
    [tk EXCEPT !.pc = "done", !.outcome = outcome, !.error = error,
               !.created = (outcome = "ok")]

task_end(tk, outcome, error) ==
    [tk EXCEPT !.pc = "done", !.outcome = outcome, !.error = error,
               !.created = (outcome = "ok" /\ ~tk.table_exists)]

released(n) == n + 1

\* mutant: the permit is dropped on the success path only
FinishLeakingPermit(t, tk, outcome, error) ==
    /\ task' = [task EXCEPT ![t] = task_end(tk, outcome, error)]
    /\ permits' = IF outcome = "ok" THEN released(permits) ELSE permits

Finish(t, tk, outcome, error) ==
    /\ task' = [task EXCEPT ![t] = task_end(tk, outcome, error)]
    /\ permits' = released(permits)

\* the capacity of the two connection pools: main gives both of them
\* options.parallelism connections, the number it also gives
\* max_concurrent_tasks
source_pool_size == options.max_concurrent_tasks
dest_pool_size == options.max_concurrent_tasks

\* the tasks that hold a connection of the source pool: migrate_table_rows
\* keeps the one it streams the rows from until it returns
source_connections_held == {t \in TableNames : task[t].pc \in {"next", "flush", "final"}}

\* the constraint tasks that hold a connection of the destination pool:
\* create_constraints keeps it from acquire to commit or rollback; every
\* other use of the destination pool acquires and releases within one step
dest_connections_held == {t \in TableNames : ctask[t].pc \in {"alter", "commit", "rollback"}}

\* pool.get() / pool.acquire() wait until the pool has a connection to give
source_connection_free == Cardinality(source_connections_held) < source_pool_size
dest_connection_free == Cardinality(dest_connections_held) < dest_pool_size

\* mutant: the task starts without waiting for a permit
AcquireWithoutWaiting(t) ==
    /\ task[t].pc = "acquire"
    /\ permits' = permits - 1
    /\ task' = [task EXCEPT ![t].pc = "schema"]
    /\ UNCHANGED <<config_vars, dest, run_pc, run_result, run_error, tables,
                   formatted_tables, spawned, ctask, executed>>

\* semaphore_clone.acquire().await
Acquire(t) ==
    /\ task[t].pc = "acquire"
    /\ permits > 0
    /\ permits' = permits - 1
    /\ task' = [task EXCEPT ![t].pc = "schema"]
    /\ UNCHANGED <<config_vars, dest, run_pc, run_result, run_error, tables,
                   formatted_tables, spawned, ctask, executed>>

\* migrate_table: get_table_schema(..).await?, then map_schema
GetTableSchema(t) ==
    /\ task[t].pc = "schema"
    /\ source_connection_free
    /\ \E r \in {"err"} \cup DataTypes :
         IF r = "err" THEN Finish(t, task[t], "err", "get_table_schema")
         ELSE IF map_schema_panics(Mappings, fetched_schema(t, r))
              THEN Finish(t, task[t], "panic", "mapping_not_found")
              ELSE task' = [task EXCEPT ![t].pc = "exists"] /\ UNCHANGED permits
    /\ UNCHANGED <<config_vars, dest, run_pc, run_result, run_error, tables,
                   formatted_tables, spawned, ctask, executed>>

\* migrate_table: table_exists(..).await?
TableExists(t) ==
    /\ task[t].pc = "exists"
    /\ dest_connection_free
    /\ \E r \in {"ok", "err"} :
         IF r = "err" THEN Finish(t, task[t], "err", "table_exists")
         ELSE LET e == dest[output_table_name(t)].exists
              IN  /\ task' = [task EXCEPT ![t].table_exists = e,
                                          ![t].pc = IF e THEN "count" ELSE "create"]
                  /\ UNCHANGED permits
    /\ UNCHANGED <<config_vars, dest, run_pc, run_result, run_error, tables,
                   formatted_tables, spawned, ctask, executed>>

\* mutant: the row count is read and ignored
CountRowsIgnoringCount(t) ==
    /\ task[t].pc = "count"
    /\ dest_connection_free
    /\ \E r \in {"ok", "err"} :
         IF r = "err" THEN Finish(t, task[t], "err", "table_rows_count")
         ELSE task' = [task EXCEPT ![t].pc = "open"] /\ UNCHANGED permits
    /\ UNCHANGED <<config_vars, dest, run_pc, run_result, run_error, tables,
                   formatted_tables, spawned, ctask, executed>>

\* migrate_table: if table_exists { table_rows_count(..).await?; count > 0 => Err }
CountRows(t) ==
    /\ task[t].pc = "count"
    /\ dest_connection_free
    /\ \E r \in {"ok", "err"} :
         IF r = "err" THEN Finish(t, task[t], "err", "table_rows_count")
         ELSE IF dest[output_table_name(t)].rows > 0
              THEN Finish(t, task[t], "err", "rows_already_exist")
              ELSE task' = [task EXCEPT ![t].pc = "open"] /\ UNCHANGED permits
    /\ UNCHANGED <<config_vars, dest, run_pc, run_result, run_error, tables,
                   formatted_tables, spawned, ctask, executed>>

\* mutant: the error of create_table is dropped and the rows are loaded
CreateTableIgnoringFailure(t) ==
    /\ task[t].pc = "create"
    /\ dest_connection_free
    /\ \E fault \in BOOLEAN :
         LET out == output_table_name(t)
             issued == [task[t] EXCEPT !.create_issued = TRUE]
         IN  /\ dest' = IF fault \/ dest[out].exists THEN dest
                        ELSE [dest EXCEPT ![out] = [exists |-> TRUE, rows |-> 0, fks |-> {}]]
             /\ task' = [task EXCEPT ![t] = [issued EXCEPT !.pc = "open"]]
             /\ UNCHANGED permits
    /\ UNCHANGED <<config_vars, run_pc, run_result, run_error, tables,
                   formatted_tables, spawned, ctask, executed>>

\* migrate_table: if !table_exists { create_table(..).await? }; CREATE TABLE
\* fails on the destination when the table is there already
CreateTable(t) ==
    /\ task[t].pc = "create"
    /\ dest_connection_free
    /\ \E fault \in BOOLEAN :
         LET out == output_table_name(t)
             issued == [task[t] EXCEPT !.create_issued = TRUE]
         IN  IF fault \/ dest[out].exists
             THEN Finish(t, issued, "err", "create_table") /\ UNCHANGED dest
             ELSE /\ dest' = [dest EXCEPT ![out] = [exists |-> TRUE, rows |-> 0, fks |-> {}]]
                  /\ task' = [task EXCEPT ![t] = [issued EXCEPT !.pc = "open"]]
                  /\ UNCHANGED permits
    /\ UNCHANGED <<config_vars, run_pc, run_result, run_error, tables,
                   formatted_tables, spawned, ctask, executed>>

(***************************************************************************)
(* TableMigrator::migrate_table_rows and execute_batch                     *)
(***************************************************************************)
\* the test that decides a flush before the row is appended
needs_flush(total_bytes, value_set_bytes, max_packet_bytes) ==
    RESERVED_BYTES + total_bytes + value_set_bytes > max_packet_bytes

\* mutant: insert_query is not cleared after the batch
after_flush_keeping_query(tk, stmt_len) ==
    [tk EXCEPT !.total_transaction_count = @ + tk.transaction_count,
               !.total_bytes = stmt_len,
               !.transaction_count = 0]

\* mutant: total_bytes is not reset after the batch
after_flush_keeping_total_bytes(tk, stmt_len) ==
    [tk EXCEPT !.total_transaction_count = @ + tk.transaction_count,
               !.insert_query = <<>>,
               !.transaction_count = 0]

\* the four assignments after execute_batch inside the loop
after_flush(tk, stmt_len) ==
    [tk EXCEPT !.total_transaction_count = @ + tk.transaction_count,
               !.insert_query = <<>>,
               !.total_bytes = stmt_len,
               !.transaction_count = 0]

\* mutant: the value set replaces what the accumulator holds
append_row_dropping_earlier(tk, row, value_set_bytes) ==
    [tk EXCEPT !.insert_query = <<StmtTok, RowTok(row)>>,
               !.total_bytes = @ + (IF tk.insert_query # <<>> THEN 1 ELSE 0) + value_set_bytes,
               !.transaction_count = @ + 1]

\* mutant: the separator is pushed before every value set
append_row_always_separated(tk, row, value_set_bytes) ==
    LET q1 == Append(tk.insert_query, CommaTok)
        q2 == IF tk.transaction_count = 0 THEN Append(q1, StmtTok) ELSE q1
    IN  [tk EXCEPT !.insert_query = Append(q2, RowTok(row)),
                   !.total_bytes = @ + 1 + value_set_bytes,
                   !.transaction_count = @ + 1]

\* the rest of the loop body: separator, statement, value set, counters
append_row(tk, row, value_set_bytes) ==
    LET comma == tk.insert_query # <<>>
        q1 == IF comma THEN Append(tk.insert_query, CommaTok) ELSE tk.insert_query
        q2 == IF tk.transaction_count = 0 THEN Append(q1, StmtTok) ELSE q1
    IN  [tk EXCEPT !.insert_query = Append(q2, RowTok(row)),
                   !.total_bytes = @ + (IF comma THEN 1 ELSE 0) + value_set_bytes,
                   !.transaction_count = @ + 1]

\* pool.get().await?, open_row_stream(..).await?, and the initialisation
OpenStream(t) ==
    /\ task[t].pc = "open"
    /\ source_connection_free
    /\ \E r \in {"ok", "err"} :
         IF r = "err" THEN Finish(t, task[t], "err", "open_row_stream")
         ELSE /\ task' = [task EXCEPT ![t].pc = "next",
                                      ![t].insert_query = <<>>,
                                      ![t].total_bytes = insert_statement_len(t),
                                      ![t].transaction_count = 0,
                                      ![t].total_transaction_count = 0,
                                      ![t].pos = 0]
              /\ UNCHANGED permits
    /\ UNCHANGED <<config_vars, dest, run_pc, run_result, run_error, tables,
                   formatted_tables, spawned, ctask, executed>>

\* stream.try_next().await? and the code up to the next await: the end of
\* the stream, a row that is appended, or a row that first needs a flush
NextRow(t) ==
    /\ task[t].pc = "next"
    /\ \E r \in {"ok", "err"} :
         LET tk == task[t]
             rows == source_rows[t]
             row == tk.pos + 1
             vsb == value_set_len(rows[row])
             got == [tk EXCEPT !.pos = row]
         IN  IF r = "err" THEN Finish(t, tk, "err", "row_stream")
             ELSE IF tk.pos = Len(rows) THEN
                  IF tk.transaction_count > 0 /\ tk.insert_query # <<>>
                  THEN task' = [task EXCEPT ![t].pc = "final"] /\ UNCHANGED permits
                  ELSE Finish(t, [tk EXCEPT !.total_transaction_count =
                                                @ + tk.transaction_count], "ok", "none")
             ELSE IF needs_flush(tk.total_bytes, vsb, options.max_packet_bytes) THEN
                  IF tk.insert_query # <<>>
                  THEN task' = [task EXCEPT ![t] = [got EXCEPT !.pc = "flush"]]
                       /\ UNCHANGED permits
                  ELSE task' = [task EXCEPT ![t] =
                                   append_row(after_flush(got, insert_statement_len(t)), row, vsb)]
                       /\ UNCHANGED permits
             ELSE task' = [task EXCEPT ![t] = append_row(got, row, vsb)]
                  /\ UNCHANGED permits
    /\ UNCHANGED <<config_vars, dest, run_pc, run_result, run_error, tables,
                   formatted_tables, spawned, ctask, executed>>

\* the awaits of execute_transactional_query that can fail
FaultPoints == {"none", "acquire", "begin", "fk_off", "query", "fk_on", "commit"}

\* mutant: the failure of the query is answered with a commit
transactional_session_committing_failures(accepted, fault) ==
    IF fault \in {"acquire", "begin"} THEN <<>>
    ELSE IF fault = "fk_off" THEN <<BeginStmt, RollbackStmt>>
    ELSE IF ~accepted THEN <<BeginStmt, FkChecksOff, RollbackStmt>>
    ELSE IF fault = "query" THEN <<BeginStmt, FkChecksOff, InsertStmt, CommitStmt>>
    ELSE IF fault = "fk_on" THEN <<BeginStmt, FkChecksOff, InsertStmt, RollbackStmt>>
    ELSE IF fault = "commit"
    THEN <<BeginStmt, FkChecksOff, InsertStmt, FkChecksOn, RollbackStmt>>
    ELSE <<BeginStmt, FkChecksOff, InsertStmt, FkChecksOn, CommitStmt>>

\* execute_transactional_query: what the session of the connection it
\* acquires carries out, when the destination accepts the query or not and
\* one of its awaits fails or none; a `?` exit drops the Transaction, which
\* rolls it back
transactional_session(accepted, fault) ==
    IF fault \in {"acquire", "begin"} THEN <<>>
    ELSE IF fault = "fk_off" THEN <<BeginStmt, RollbackStmt>>
    ELSE IF fault = "query" \/ ~accepted THEN <<BeginStmt, FkChecksOff, RollbackStmt>>
    ELSE IF fault = "fk_on" THEN <<BeginStmt, FkChecksOff, InsertStmt, RollbackStmt>>
    ELSE IF fault = "commit"
    THEN <<BeginStmt, FkChecksOff, InsertStmt, FkChecksOn, RollbackStmt>>
    ELSE <<BeginStmt, FkChecksOff, InsertStmt, FkChecksOn, CommitStmt>>

\* execute_transactional_query returns Ok(()) when no await failed
returns_ok(accepted, fault) == fault = "none" /\ accepted

\* the query of the session takes effect when its transaction commits
transaction_commits(session) ==
    /\ \E i \in 1..Len(session) : session[i] = InsertStmt
    /\ session[Len(session)] = CommitStmt

\* foreign_key_checks is a variable of the session, which a rollback does
\* not restore: it is as the last SET left it, and on as the pool opened
\* the connection when there was none
fk_checks_after(session) ==
    LET sets == {i \in 1..Len(session) : session[i] \in {FkChecksOff, FkChecksOn}}
    IN  sets = {} \/ session[CHOOSE i \in sets : \A j \in sets : j <= i] = FkChecksOn

\* what execute_batch hands to execute_transactional_query, what it got
\* back and how the call left the connection
batch_record(t, q, ok, session) ==
    [query |-> q, bytes |-> QueryBytes(q, insert_statement_len(t), source_rows[t]), ok |-> ok,
     fk_checks |-> fk_checks_after(session)]

\* the INSERT of a batch commits when the table is there and nothing fails
insert_commits(d, out, fault) ==
    transaction_commits(transactional_session(d[out].exists, fault))

inserted(d, out, q) == [d EXCEPT ![out].rows = @ + QueryRows(q)]

\* mutant: the error of execute_batch inside the loop is dropped and the
\* loop goes on with the next batch
FlushIgnoringFailure(t) ==
    /\ task[t].pc = "flush"
    /\ dest_connection_free
    /\ \E fault \in FaultPoints :
         LET tk == task[t]
             out == output_table_name(t)
             ok == returns_ok(dest[out].exists, fault)
             written == insert_commits(dest, out, fault)
             session == transactional_session(dest[out].exists, fault)
             vsb == value_set_len(source_rows[t][tk.pos])
         IN  /\ executed' = [executed EXCEPT ![t] = Append(@, batch_record(t, tk.insert_query, ok, session))]
             /\ dest' = IF written THEN inserted(dest, out, tk.insert_query) ELSE dest
             /\ task' = [task EXCEPT ![t] =
                            [append_row(after_flush(tk, insert_statement_len(t)), tk.pos, vsb)
                                EXCEPT !.pc = "next"]]
             /\ UNCHANGED permits
    /\ UNCHANGED <<config_vars, run_pc, run_result, run_error, tables,
                   formatted_tables, spawned, ctask>>

\* execute_batch(..).await? inside the loop, then the rest of the iteration
Flush(t) ==
    /\ task[t].pc = "flush"
    /\ dest_connection_free
    /\ \E fault \in FaultPoints :
         LET tk == task[t]
             out == output_table_name(t)
             ok == returns_ok(dest[out].exists, fault)
             written == insert_commits(dest, out, fault)
             session == transactional_session(dest[out].exists, fault)
             vsb == value_set_len(source_rows[t][tk.pos])
         IN  /\ executed' = [executed EXCEPT ![t] = Append(@, batch_record(t, tk.insert_query, ok, session))]
             /\ dest' = IF written THEN inserted(dest, out, tk.insert_query) ELSE dest
             /\ IF ok
                THEN /\ task' = [task EXCEPT ![t] =
                                    [append_row(after_flush(tk, insert_statement_len(t)), tk.pos, vsb)
                                        EXCEPT !.pc = "next"]]
                     /\ UNCHANGED permits
                ELSE Finish(t, tk, "err", "execute_batch")
    /\ UNCHANGED <<config_vars, run_pc, run_result, run_error, tables,
                   formatted_tables, spawned, ctask>>

\* execute_batch(..).await? after the loop, then Ok(total_transaction_count)
FinalFlush(t) ==
    /\ task[t].pc = "final"
    /\ dest_connection_free
    /\ \E fault \in FaultPoints :
         LET tk == task[t]
             out == output_table_name(t)
             ok == returns_ok(dest[out].exists, fault)
             written == insert_commits(dest, out, fault)
             session == transactional_session(dest[out].exists, fault)
         IN  /\ executed' = [executed EXCEPT ![t] = Append(@, batch_record(t, tk.insert_query, ok, session))]
             /\ dest' = IF written THEN inserted(dest, out, tk.insert_query) ELSE dest
             /\ IF ok
                THEN Finish(t, [tk EXCEPT !.total_transaction_count =
                                              @ + tk.transaction_count], "ok", "none")
                ELSE Finish(t, tk, "err", "execute_batch")
    /\ UNCHANGED <<config_vars, run_pc, run_result, run_error, tables,
                   formatted_tables, spawned, ctask>>


(***************************************************************************)
(* join_all of the migration tasks, process_migration_results and the      *)
(* start of ConstraintsCreator::run                                        *)
(***************************************************************************)
\* mutant: the coordinator goes on when the first task has finished
first_task_done == \E i \in 1..Len(tables) : task[tables[i]].pc = "done"

all_tasks_done == \A i \in 1..Len(tables) : task[tables[i]].pc = "done"

\* process_migration_results: the Ok results, and of them the ones
\* ConstraintsCreator::run keeps (created)
successful_results == {t \in SeqToSet(tables) : task[t].outcome = "ok"}
migration_errors == {t \in SeqToSet(tables) : task[t].outcome = "err"}

\* mutant: the filter on `created` is missing
constraint_tables_unfiltered(results) == results

constraint_tables(results) == {t \in results : task[t].created}

\* join_all(migration_tasks).await with expect("Error in JoinHandle") on
\* every result, process_migration_results, and, with options.constraints,
\* the spawning of the constraint tasks
Join ==
    /\ run_pc = "join"
    /\ all_tasks_done
    /\ IF \E t \in SeqToSet(tables) : task[t].outcome = "panic"
       THEN /\ run_pc' = "panicked"
            /\ run_result' = "panic"
            /\ UNCHANGED ctask
       ELSE IF options.constraints
       THEN /\ ctask' = [t \in TableNames |->
                           IF t \in constraint_tables(successful_results)
                           THEN [ctask[t] EXCEPT !.pc = "spawned"] ELSE ctask[t]]
            /\ run_pc' = "constrain"
            /\ UNCHANGED run_result
       ELSE /\ run_pc' = "done"
            /\ run_result' = "ok"
            /\ UNCHANGED ctask
    /\ UNCHANGED <<config_vars, dest, run_error, tables, formatted_tables, spawned,
                   permits, task, executed>>

(***************************************************************************)
(* Constraint tasks: DatabaseInserter::create_constraints                  *)
(***************************************************************************)
\* transaction.execute(..) whose future is dropped without .await: the
\* future is never polled and the session is sent nothing
execute_unawaited(session, stmt) == session

\* transaction.execute(..).await of statements the session carries out
execute_awaited(session, stmts) == session \o stmts

\* build_create_constraints, pool.acquire().await?, connection.begin().await?,
\* then the execute of "SET FOREIGN_KEY_CHECKS=0" that is not awaited
CBegin(t) ==
    /\ ctask[t].pc = "spawned"
    /\ ~build_create_constraints_is_some(mapped_schema(t)) \/ dest_connection_free
    /\ \E r \in {"ok", "err"} :
         IF ~build_create_constraints_is_some(mapped_schema(t))
         THEN ctask' = [ctask EXCEPT ![t].pc = "done", ![t].outcome = "no_query"]
         ELSE IF r = "err"
         THEN ctask' = [ctask EXCEPT ![t].pc = "done", ![t].outcome = "err"]
         ELSE ctask' = [ctask EXCEPT ![t].pc = "alter",
                                     ![t].session = execute_unawaited(<<BeginStmt>>, FkChecksOff)]
    /\ UNCHANGED <<config_vars, dest, run_pc, run_result, run_error, tables,
                   formatted_tables, spawned, permits, task, executed>>

\* the destination accepts the ALTER TABLE when the table and the tables
\* its foreign keys reference exist
alter_accepted(d, out, schema) ==
    d[out].exists /\ \A ref \in alter_referenced_tables(schema) : d[ref].exists

\* transaction.execute(query).await
CAlter(t) ==
    /\ ctask[t].pc = "alter"
    /\ \E fault \in BOOLEAN :
         IF fault
         THEN ctask' = [ctask EXCEPT ![t].pc = "rollback", ![t].alter = "fault"]
         ELSE IF alter_accepted(dest, output_table_name(t), mapped_schema(t))
         THEN ctask' = [ctask EXCEPT ![t].pc = "commit", ![t].alter = "ok",
                                     ![t].session = execute_awaited(@,
                                         build_create_constraints_statements)]
         ELSE ctask' = [ctask EXCEPT ![t].pc = "rollback", ![t].alter = "rejected",
                                     ![t].session = execute_awaited(@, <<FkChecksOff>>)]
    /\ UNCHANGED <<config_vars, dest, run_pc, run_result, run_error, tables,
                   formatted_tables, spawned, permits, task, executed>>

\* transaction.commit().await?
CCommit(t) ==
    /\ ctask[t].pc = "commit"
    /\ \E r \in {"ok", "err"} :
         IF r = "ok"
         THEN /\ dest' = [dest EXCEPT ![output_table_name(t)].fks =
                             @ \cup alter_referenced_tables(mapped_schema(t))]
              /\ ctask' = [ctask EXCEPT ![t].pc = "done", ![t].outcome = "committed",
                                        ![t].session = execute_awaited(@, <<CommitStmt>>)]
         ELSE /\ ctask' = [ctask EXCEPT ![t].pc = "done", ![t].outcome = "err"]
              /\ UNCHANGED dest
    /\ UNCHANGED <<config_vars, run_pc, run_result, run_error, tables,
                   formatted_tables, spawned, permits, task, executed>>

\* the execute of "SET FOREIGN_KEY_CHECKS=1" that is not awaited, then
\* transaction.rollback().await?
CRollback(t) ==
    /\ ctask[t].pc = "rollback"
    /\ \E r \in {"ok", "err"} :
         ctask' = [ctask EXCEPT ![t].pc = "done",
                                ![t].outcome = IF r = "ok" THEN "rolled_back" ELSE "err",
                                ![t].session =
                                    IF r = "ok"
                                    THEN execute_awaited(execute_unawaited(@, FkChecksOn),
                                                         <<RollbackStmt>>)
                                    ELSE execute_unawaited(@, FkChecksOn)]
    /\ UNCHANGED <<config_vars, dest, run_pc, run_result, run_error, tables,
                   formatted_tables, spawned, permits, task, executed>>

\* join_all(tasks).await of ConstraintsCreator::run, then Ok(())
ConstraintsJoin ==
    /\ run_pc = "constrain"
    /\ \A t \in TableNames : ctask[t].pc \in {"none", "done"}
    /\ run_pc' = "done"
    /\ run_result' = "ok"
    /\ UNCHANGED <<config_vars, dest, run_error, tables, formatted_tables, spawned,
                   permits, task, ctask, executed>>

(***************************************************************************)
(* Value formatting (extract/format.rs)                                    *)
(***************************************************************************)
\* the variants of tiberius::ColumnData that format_column_value matches
ColumnKinds ==
    {"Binary", "Bit", "U8", "I16", "I32", "I64", "F32", "F64", "Guid", "Numeric",
     "String", "Time", "Date", "SmallDateTime", "DateTime", "DateTime2",
     "DateTimeOffset", "Xml"}

ColumnData(kind, val) == [kind |-> kind, val |-> val]

\* what a call does: it returns a text or it panics
Returned(text) == [panics |-> FALSE, text |-> text]
Panicked == [panics |-> TRUE, text |-> <<>>]

NULL == <<"N", "U", "L", "L">>

DigitChars == <<"0", "1", "2", "3", "4", "5", "6", "7", "8", "9">>

\* Display of a non-negative integer: its decimal digits
RECURSIVE digits(_)
digits(n) ==
    IF n < 10 THEN <<DigitChars[n + 1]>>
    ELSE digits(n \div 10) \o <<DigitChars[(n % 10) + 1]>>

\* Display of i128 ("{}")
to_string(n) == IF n < 0 THEN <<"-">> \o digits(-n) ELSE digits(n)

abs(n) == IF n < 0 THEN -n ELSE n

RECURSIVE pow10(_)
pow10(e) == IF e = 0 THEN 1 ELSE 10 * pow10(e - 1)

\* mutant: "{:0>scale$}", the fill goes to the left of the digits
pad_left_with_zeros(text, width) ==
    [i \in 1..(IF width > Len(text) THEN width - Len(text) ELSE 0) |-> "0"] \o text

\* "{:0<scale$}": left-aligned in a field of at least `width` characters,
\* filled with '0' on the right
pad_right_with_zeros(text, width) ==
    text \o [i \in 1..(IF width > Len(text) THEN width - Len(text) ELSE 0) |-> "0"]

\* format!("'{}'", ..)
quoted(text) == <<"'">> \o text \o <<"'">>

\* a Numeric as format_numeric_value reads it: int_part() and dec_part()
\* are the quotient and the remainder, both truncated towards zero, of the
\* unscaled value by 10^scale
Numeric(value, scale) ==
    LET p == pow10(scale)
        q == abs(value) \div p
        r == abs(value) % p
    IN  [int_part |-> IF value < 0 THEN -q ELSE q,
         dec_part |-> IF value < 0 THEN -r ELSE r,
         scale |-> scale]

format_numeric_value(value) ==
    IF value.some
    THEN LET int_part == value.v.int_part
             dec_part == abs(value.v.dec_part)
             scale == value.v.scale
             formatted_value == to_string(int_part) \o <<".">>
                                  \o pad_right_with_zeros(to_string(dec_part), scale)
         IN  Returned(quoted(formatted_value))
    ELSE Returned(NULL)

\* tiberius::time::SmallDateTime: days() since 1900-01-01 and
\* seconds_fragments(), the whole minutes since midnight
SmallDateTime(days, seconds_fragments) ==
    [days |-> days, seconds_fragments |-> seconds_fragments]

\* chrono::NaiveDate as year, month and day of the proleptic Gregorian calendar
NaiveDate(year, month, day) == [year |-> year, month |-> month, day |-> day]

is_leap_year(year) == (year % 4 = 0 /\ year % 100 # 0) \/ year % 400 = 0

days_in_month(year, month) ==
    CASE month = 2 -> IF is_leap_year(year) THEN 29 ELSE 28
      [] month \in {4, 6, 9, 11} -> 30
      [] OTHER -> 31

\* the first day of the month after `date`
first_of_next_month(date) ==
    IF date.month < 12 THEN NaiveDate(date.year, date.month + 1, 1)
    ELSE NaiveDate(date.year + 1, 1, 1)

\* NaiveDate + Duration::days(days), days >= 0
RECURSIVE add_days(_, _)
add_days(date, days) ==
    LET left == days_in_month(date.year, date.month) - date.day
    IN  IF days <= left THEN NaiveDate(date.year, date.month, date.day + days)
        ELSE add_days(first_of_next_month(date), days - (left + 1))

from_days(days, base_year) == add_days(NaiveDate(base_year, 1, 1), days)

\* NaiveTime::from_hms_opt(hour, min, sec): None for an hour, minute or
\* second out of range
from_hms_opt(hour, min, sec) ==
    IF hour < 24 /\ min < 60 /\ sec < 60
    THEN Some([hour |-> hour, min |-> min, sec |-> sec])
    ELSE None

\* from_minutes before its .expect("Invalid time components"): None is the
\* panic of the expect
from_minutes(minutes) ==
    LET hours == minutes \div 60
        minutes_remainder == minutes % 60
    IN  from_hms_opt(0, hours, minutes_remainder)

\* "%Y", "%m", "%d", "%H", "%M" and "%S": zero-padded to `width` digits
zero_padded(n, width) ==
    [i \in 1..(IF width > Len(digits(n)) THEN width - Len(digits(n)) ELSE 0) |-> "0"]
        \o digits(n)

\* NaiveDateTime::format("'%Y-%m-%d %H:%M:%S'")
format_naive_datetime(date, time) ==
    quoted(zero_padded(date.year, 4) \o <<"-">> \o zero_padded(date.month, 2) \o <<"-">>
             \o zero_padded(date.day, 2) \o <<" ">> \o zero_padded(time.hour, 2) \o <<":">>
             \o zero_padded(time.min, 2) \o <<":">> \o zero_padded(time.sec, 2))

format_small_datetime(val) ==
    IF val.some
    THEN LET date == from_days(val.v.days, 1900)
             time == from_minutes(val.v.seconds_fragments * 60)
         IN  IF time.some THEN Returned(format_naive_datetime(date, time.v))
             ELSE Panicked
    ELSE Returned(NULL)

\* Option::map(..).unwrap_or_else(|| "NULL".to_string()) of format_number_value,
\* format_string_value and the temporal formatters, for an absent value
null_or_else(val) ==
    CASE ~val.some -> Returned(NULL)

\* the match of format_column_value
format_column_value(item) ==
    CASE item.kind = "Binary" /\ ~item.val.some -> Returned(NULL)
      [] item.kind = "Bit" /\ ~item.val.some -> Returned(<<"f", "a", "l", "s", "e">>)
      [] item.kind = "U8" /\ ~item.val.some -> Returned(<<"0">>)
      [] item.kind = "Xml" /\ ~item.val.some -> Panicked
      [] item.kind = "Numeric" -> format_numeric_value(item.val)
      [] item.kind = "SmallDateTime" -> format_small_datetime(item.val)
      [] item.kind \in {"I16", "I32", "I64", "F32", "F64", "Guid", "String", "Time",
                        "Date", "DateTime", "DateTime2", "DateTimeOffset"}
            -> null_or_else(item.val)

(***************************************************************************)
(* Calls of the helper functions on their own                              *)
(***************************************************************************)
MaxIdentLen == 3          \* longest identifier drawn from IdentChars
MaxScale == 3             \* largest scale of a Numeric

UserID == <<"U", "s", "e", "r", "I", "D">>
IPAddress == <<"I", "P", "A", "d", "d", "r", "e", "s", "s">>

IdentChars == {"a", "A", "B", "_", "É"}
Idents == UNION {[1..n -> IdentChars] : n \in 0..MaxIdentLen} \cup {UserID, IPAddress}

UnscaledValues == {0, 5, -5, 50, 7, 12345, -1234}
Numerics == {Numeric(v, sc) : v \in UnscaledValues, sc \in 0..MaxScale}

\* days since 1900-01-01: the first day, the ends of February and of 1900
\* (not a leap year), and a day of the leap year 1904
DayCounts == {0, 58, 59, 364, 365, 1520}
\* whole minutes since midnight, below 24 * 60
MinuteCounts == {0, 1, 59, 60, 61, 719, 1439}
SmallDateTimes == {SmallDateTime(d, m) : d \in DayCounts, m \in MinuteCounts}

ColumnValues ==
    {ColumnData(k, None) : k \in ColumnKinds}
        \cup {ColumnData("Numeric", Some(n)) : n \in Numerics}
        \cup {ColumnData("SmallDateTime", Some(dt)) : dt \in SmallDateTimes}

MaxColumns == 2           \* longest schema handed to map_schema

\* character_maximum_length, numeric_precision and numeric_scale as
\* INFORMATION_SCHEMA reports them: a length for a character column (-1 for
\* a MAX column), precision and scale for a numeric column
ColumnShapes ==
    {<<len, None, None>> :
        len \in {None, Some(-2), Some(-1), Some(0), Some(255), Some(65536)}}
        \cup {<<None, Some(10), sc>> : sc \in {Some(0), Some(2)}}

SchemaColumns ==
    {ColumnSchema(<<"c", "I", "d">>, ty, sh[1], sh[2], sh[3], TRUE,
                  ForeignKey(OrderItem, <<"i", "d">>)) :
        ty \in DataTypes, sh \in ColumnShapes}

Schemas == UNION {[1..n -> SchemaColumns] : n \in 0..MaxColumns}

\* mappings.toml files: int goes to int, with or without type parameters,
\* and varchar to text, with or without type parameters and defaults; a
\* default length is 255 or the length of a LONGTEXT, 4294967295
MappingChoices(to_type) ==
    {Mapping(to_type, tp, d[1], d[2], d[3]) :
        tp \in BOOLEAN,
        d \in {<<None, None, None>>, <<Some(18), Some(u32(4)), Some(u32(255))>>,
               <<Some(18), Some(u32(4)), Some(U32Max)>>}}

MappingTables ==
    {[ty \in MappedTypes |-> IF ty = "int" THEN a ELSE b] :
        a \in {m \in MappingChoices("int") : ~m.max_characters_length.some},
        b \in MappingChoices("text")}

Calls ==
    [fn : {"format_snake_case"}, arg : Idents, ret : {<<>>}]
        \cup [fn : {"map_schema"},
              arg : [mappings : MappingTables, table_schema : Schemas, format : BOOLEAN],
              ret : {<<>>}]
        \cup [fn : {"format_column_value"}, arg : ColumnValues, ret : {<<>>}]
        \cup [fn : {"format_numeric_value"}, arg : {None} \cup {Some(n) : n \in Numerics},
              ret : {<<>>}]

\* no run is under way: the run's variables stay as DatabaseMigrator::new
\* leaves them
InitCalls ==
    /\ call \in Calls
    /\ options = [drop |-> FALSE, constraints |-> FALSE, format_snake_case |-> TRUE,
                  max_concurrent_tasks |-> 1, max_packet_bytes |-> RunPacketBytes,
                  whitelisted_tables |-> <<Cust>>]
    /\ max_allowed_packet = RunPacketBytes
    /\ source_rows = RunRows
    /\ dest0 = InitialDest
    /\ InitRun

run_vars == <<options, max_allowed_packet, source_rows, dest0, dest, run_pc, run_result,
              run_error, tables, formatted_tables, spawned, permits, task, ctask,
              executed>>

\* format_snake_case(x), then format_snake_case of what it returned
FormatSnakeCase ==
    /\ call.fn = "format_snake_case"
    /\ Len(call.ret) < 2
    /\ call' = [call EXCEPT !.ret = Append(@, format_snake_case(
                                IF call.ret = <<>> THEN call.arg ELSE call.ret[Len(call.ret)]))]
    /\ UNCHANGED run_vars

FormatColumnValue ==
    /\ call.fn = "format_column_value"
    /\ call.ret = <<>>
    /\ call' = [call EXCEPT !.ret = <<format_column_value(call.arg)>>]
    /\ UNCHANGED run_vars

FormatNumericValue ==
    /\ call.fn = "format_numeric_value"
    /\ call.ret = <<>>
    /\ call' = [call EXCEPT !.ret = <<format_numeric_value(call.arg)>>]
    /\ UNCHANGED run_vars

\* map_schema(mappings, table_schema, format): the mapped schema, or the
\* panic of the lookup of a data type that has no mapping
MapSchema ==
    /\ call.fn = "map_schema"
    /\ call.ret = <<>>
    /\ call' = [call EXCEPT !.ret =
                    IF map_schema_panics(call.arg.mappings, call.arg.table_schema)
                    THEN <<Panicked>>
                    ELSE <<Returned(map_schema(call.arg.mappings, call.arg.table_schema,
                                               call.arg.format))>>]
    /\ UNCHANGED run_vars

NextCalls ==
    \/ MapSchema
    \/ FormatSnakeCase
    \/ FormatColumnValue
    \/ FormatNumericValue

(***************************************************************************)
(* Specifications                                                          *)
(***************************************************************************)
Next ==
    \/ Preflight
    \/ FetchTables
    \/ ResetTables
    \/ SpawnTask
    \/ Join
    \/ ConstraintsJoin
    \/ \E t \in TableNames :
         \/ Acquire(t)
         \/ GetTableSchema(t)
         \/ TableExists(t)
         \/ CountRows(t)
         \/ CreateTable(t)
         \/ OpenStream(t)
         \/ NextRow(t)
         \/ Flush(t)
         \/ FinalFlush(t)
         \/ CBegin(t)
         \/ CAlter(t)
         \/ CCommit(t)
         \/ CRollback(t)

\* concurrent runs of three tables
Spec == Init /\ [][Next]_vars

\* runs of the batch loader on one table
SpecLoad == InitLoad /\ [][Next]_vars

\* the tokio runtime keeps polling every task that can make progress
FairSpec == InitFair /\ [][Next]_vars /\ WF_vars(Next)

\* calls of the helper functions on their own
SpecCalls == InitCalls /\ [][NextCalls]_vars


(***************************************************************************)
(* Properties                                                              *)
(***************************************************************************)
\* the task of t is between acquiring and releasing its permit
holds_permit(t) ==
    task[t].pc \in {"schema", "exists", "count", "create", "open", "next", "flush", "final"}

permit_holders == {t \in TableNames : holds_permit(t)}

every_task_finished ==
    /\ spawned = Len(tables)
    /\ \A t \in SeqToSet(tables) : task[t].pc = "done"

\* C1: every batch text handed to execute_transactional_query by the batch
\* loader is at most max_packet_bytes bytes long, a batch of a single row
\* tuple included.
C1_BatchWithinPacketBytes ==
    \A t \in TableNames : \A i \in 1..Len(executed[t]) :
        executed[t][i].bytes <= options.max_packet_bytes

\* C2: at no instant do more than max_concurrent_tasks migration tasks
\* hold a semaphore permit.
C2_AtMostNPermitHolders ==
    Cardinality(permit_holders) <= options.max_concurrent_tasks

C2_Witness ==
    /\ options.max_concurrent_tasks = 2
    /\ Cardinality(permit_holders) = 2
    /\ permits = 0
    /\ \E t \in TableNames : task[t].pc = "acquire"

\* C3: no constraint task starts before every migration task of the run
\* has completed.
C3_ConstraintsAfterAllMigrations ==
    (\E t \in TableNames : ctask[t].pc # "none") => every_task_finished

C3_Witness ==
    /\ \E t \in TableNames : ctask[t].pc = "alter"
    /\ Cardinality({t \in TableNames : task[t].pc = "done"}) = 3

\* C4: with create_constraints set, when OrderItem (foreign key to Cust) and
\* Cust are both created in the run, OrderItem's ALTER TABLE is executed only
\* when Cust's table exists, is never refused by the destination, and unless
\* the constraint task met a connection fault the run ends with the foreign
\* key applied.
C4_ForeignKeyApplied ==
    (options.constraints /\ task[OrderItem].created /\ task[Cust].created)
    => /\ ctask[OrderItem].alter # "rejected"
       /\ (ctask[OrderItem].alter # "none" => dest[output_table_name(Cust)].exists)
       /\ (run_pc = "done" /\ ctask[OrderItem].alter # "fault"
                           /\ ctask[OrderItem].outcome # "err"
             => output_table_name(Cust) \in dest[output_table_name(OrderItem)].fks)

C4_Witness ==
    /\ run_pc = "done"
    /\ options.constraints
    /\ task[OrderItem].created /\ task[Cust].created
    /\ ctask[OrderItem].outcome = "committed"
    /\ output_table_name(Cust) \in dest[output_table_name(OrderItem)].fks

\* some source table is given this destination name, up to letter case
names_source_table(d) ==
    LET formatted == format_table_names(SourceTables, options.format_snake_case)
    IN  \E i \in 1..Len(formatted) : to_lowercase(formatted[i]) = to_lowercase(d)

C6_TableErrorsAreIsolated ==
    (/\ run_pc \notin {"preflight", "fetch", "reset", "spawn", "join"}
     /\ \E t \in TableNames : task[t].outcome = "err")
    => run_pc \in {"constrain", "done"}

\* C7: a column type without a mapping ends the task of its table with an
\* error outcome, and the run is not aborted.
C7_MappingNotFoundIsRecoverable ==
    \A t \in TableNames :
        task[t].error = "mapping_not_found"
        => task[t].outcome = "err" /\ run_pc # "panicked"

\* C8 as stated: run() fails if and only if max_packet_bytes is greater
\* than max_allowed_packet, and a failed run has touched no table and
\* spawned no task.
C8_FailsIffPacketTooLarge ==
    run_pc \in {"failed", "done"} =>
        /\ run_result = "err" <=> options.max_packet_bytes > max_allowed_packet
        /\ run_result = "err" => dest = dest0 /\ spawned = 0

\* C8 amended: once max_allowed_packet has been read, run() fails at the
\* packet-size check if and only if max_packet_bytes is strictly greater
\* than max_allowed_packet; a run that failed in Preflight has touched no
\* destination table and spawned no task.
C8_PreflightFailsIffPacketTooLarge ==
    /\ (run_pc # "preflight" /\ run_error # "packet_query")
       => (run_error = "packet_size" <=> options.max_packet_bytes > max_allowed_packet)
    /\ run_error \in {"packet_size", "packet_query"}
       => /\ run_result = "err"
          /\ dest = dest0
          /\ spawned = 0
          /\ \A t \in TableNames :
                task[t].pc = "unspawned" /\ ctask[t].pc = "none" /\ executed[t] = <<>>

C8_Witness ==
    /\ run_error = "packet_size"
    /\ options.max_packet_bytes = max_allowed_packet + 1
    /\ \E d \in DestNames : dest[d].rows > 0

\* C9: a task that holds a permit gives it back when it ends, with an
\* error, a panic or a result alike: permits are conserved, every spawned
\* task eventually gets a permit and completes, and when all have completed
\* the semaphore holds max_concurrent_tasks permits again.
C9_PermitsAreReleased ==
    /\ [](run_pc \in {"spawn", "join", "constrain", "done", "panicked"}
            => permits + Cardinality(permit_holders) = options.max_concurrent_tasks)
    /\ (run_pc = "spawn") ~> every_task_finished

C9_Witness ==
    /\ every_task_finished
    /\ \E t \in TableNames : task[t].outcome = "err"
    /\ \E t \in TableNames : task[t].outcome = "ok"
    /\ permits = options.max_concurrent_tasks

\* C10: a constraint task exists for a table only if create_constraints is
\* set and the table's migration returned a result with created = true:
\* a table whose migration failed or that existed when it was checked gets
\* none.
C10_ConstraintsOnlyForCreated ==
    \A t \in TableNames :
        ctask[t].pc # "none"
        => options.constraints /\ task[t].outcome = "ok" /\ ~task[t].table_exists

C10_Witness ==
    /\ run_pc = "done"
    /\ \E t \in TableNames : ctask[t].outcome = "committed"
    /\ \E t \in TableNames :
          task[t].outcome = "ok" /\ task[t].table_exists /\ ctask[t].pc = "none"
    /\ \E t \in TableNames : task[t].outcome = "err" /\ ctask[t].pc = "none"

\* C11: once Preflight, the table enumeration and Reset have succeeded the
\* run never ends in a failure, however many constraint tasks fail; a
\* failed constraint task leaves no constraint behind, and the run ends
\* only when every constraint task has ended.
C11_ConstraintFailuresNeverFailRun ==
    /\ run_pc \in {"spawn", "join", "constrain", "done", "panicked"}
       => run_result \in {"none", "ok"}
    /\ \A t \in TableNames :
          ctask[t].outcome \in {"err", "rolled_back"}
          => dest[output_table_name(t)].fks = {}
    /\ run_pc = "done" => \A t \in TableNames : ctask[t].pc \in {"none", "done"}

\* the source tables the whitelist keeps
whitelisted_source_tables == Retain(SourceTables, SeqToSet(options.whitelisted_tables))

\* some table of ts is given this destination name, up to letter case
names_table_of(d, ts) ==
    LET formatted == format_table_names(ts, options.format_snake_case)
    IN  \E i \in 1..Len(formatted) : to_lowercase(formatted[i]) = to_lowercase(d)

\* C12: Reset drops or truncates only destination tables that correspond to
\* a whitelisted source table: a destination table that corresponds to no
\* whitelisted source table is as it was before the run.
C12_ResetOnlyWhitelistedTables ==
    \A d \in DestNames :
        (dest0[d].exists /\ ~names_table_of(d, whitelisted_source_tables))
        => dest[d] = dest0[d]

\* the rows of the source table that a batch text holds
batch_rows(b) == {b.query[i].idx : i \in {j \in 1..Len(b.query) : b.query[j].kind = "row"}}

\* C13: a batch whose flush failed is the last batch of its table: no later
\* batch is executed, none of its rows is sent again in another batch, and
\* the task of the table ends with the error of execute_batch, which
\* process_migration_results files under the errors of that table.
C13_FailedFlushStopsLoading ==
    \A t \in TableNames : \A i \in 1..Len(executed[t]) :
        ~executed[t][i].ok
        => /\ i = Len(executed[t])
           /\ task[t].pc = "done"
           /\ task[t].outcome = "err" /\ task[t].error = "execute_batch"
           /\ t \in migration_errors
           /\ \A j \in 1..Len(executed[t]) :
                 j # i => batch_rows(executed[t][j]) \cap batch_rows(executed[t][i]) = {}

C13_Witness ==
    /\ run_pc = "done"
    /\ \E t \in TableNames :
          /\ Len(executed[t]) = 1 /\ ~executed[t][1].ok
          /\ batch_rows(executed[t][1]) = {1}
          /\ task[t].pos = 2 /\ Len(source_rows[t]) = 3
          /\ dest[output_table_name(t)].rows = 0

\* C14: a task that finds its destination table existing never issues
\* CREATE TABLE; when the row count it reads is positive the task ends
\* there with an error, and a task ended that way has executed no batch
\* and is not among the successful results.
C14_PopulatedTableIsNotLoaded ==
    /\ [](\A t \in TableNames :
            /\ task[t].table_exists => task[t].pc # "create"
            /\ task[t].error = "rows_already_exist"
               => /\ task[t].pc = "done" /\ task[t].outcome = "err"
                  /\ task[t].table_exists /\ ~task[t].created
                  /\ executed[t] = <<>>
                  /\ t \notin successful_results)
    /\ [][\A t \in TableNames :
            (/\ task[t].pc = "count"
             /\ dest[output_table_name(t)].rows > 0
             /\ task'[t] # task[t])
            => /\ task'[t].pc = "done" /\ task'[t].outcome = "err"
               /\ executed'[t] = <<>>
               /\ dest' = dest]_vars

C14_Witness ==
    /\ run_pc = "done"
    /\ \E t \in TableNames :
          /\ task[t].error = "rows_already_exist"
          /\ dest[output_table_name(t)].rows > 0
          /\ executed[t] = <<>>

\* k row tuples of v bytes fit together with the preamble, the k - 1
\* separators and the reserved margin
tuples_fit(t, k, v) ==
    insert_statement_len(t) + k * v + (k - 1) + RESERVED_BYTES <= options.max_packet_bytes

ceil_div(n, k) == (n + k - 1) \div k

\* C15: when the rows of a table have tuples of one size v and exactly k
\* of them fit together with the preamble, the separators and the reserved
\* margin, a load of its n rows that met no failure has executed
\* ceil(n / k) batches, each of k rows except the last, which has the rest.
C15_BatchCountIsCeilOfRowsOverFit ==
    \A t \in TableNames : \A k \in 1..(MaxRows + 1) :
        LET rows == source_rows[t]
            n == Len(rows)
            v == value_set_len(rows[1])
            batches == executed[t]
        IN  (/\ task[t].pc = "done" /\ task[t].outcome = "ok"
             /\ n >= 1
             /\ \A i \in 1..n : value_set_len(rows[i]) = v
             /\ tuples_fit(t, k, v) /\ ~tuples_fit(t, k + 1, v))
            => /\ Len(batches) = ceil_div(n, k)
               /\ \A i \in 1..Len(batches) :
                     QueryRows(batches[i].query) =
                        IF i < Len(batches) THEN k ELSE n - k * (Len(batches) - 1)

\* C16 as stated: whitelisted names that are absent from a non-empty source
\* table list never make run() return an error.
C16_MissingWhitelistedNeverFails ==
    check_missing_tables(SourceTables, options.whitelisted_tables) # <<>>
    => run_error # "no_whitelisted_tables"

\* C16 amended: when at least one whitelisted table is in the source table
\* list, the whitelisted names that are absent do not make run() return an
\* error, and the tables to migrate are the whitelisted tables that are
\* present, each of which gets its task.
C16_MissingWhitelistedOnlyWarns ==
    whitelisted_source_tables # <<>>
    => /\ run_error # "no_whitelisted_tables"
       /\ run_pc \in {"reset", "spawn", "join", "constrain", "done", "panicked"}
          => tables = whitelisted_source_tables
       /\ run_pc \in {"join", "constrain", "done", "panicked"}
          => \A t \in SeqToSet(whitelisted_source_tables) : task[t].pc # "unspawned"

C16_Witness ==
    /\ check_missing_tables(SourceTables, options.whitelisted_tables) = <<Ghost>>
    /\ run_pc = "done" /\ run_result = "ok"
    /\ \A t \in {OrderItem, Order_Item, Cust} : task[t].outcome = "ok"
    /\ tables = <<OrderItem, Order_Item, Cust>>

\* C17: format_snake_case applied to its own result returns that result.
C17_SnakeCaseIsIdempotent ==
    (call.fn = "format_snake_case" /\ Len(call.ret) = 2) => call.ret[2] = call.ret[1]

\* position i of x holds a capital that follows a character which is
\* neither a capital nor an underscore
starts_segment(x, i) ==
    i > 1 /\ is_uppercase(x[i]) /\ ~is_uppercase(x[i-1]) /\ x[i-1] # "_"

\* where the character at position i of x is found in format_snake_case(x)
snake_position(x, i) == i + Cardinality({j \in 1..i : starts_segment(x, j)})

\* C18 as stated: format_snake_case("UserID") = "user_id" and
\* format_snake_case("IPAddress") = "ip_address".
C18_SnakeCaseExamples ==
    (call.fn = "format_snake_case" /\ call.ret # <<>>)
    => /\ call.arg = UserID => call.ret[1] = <<"u", "s", "e", "r", "_", "i", "d">>
       /\ call.arg = IPAddress
          => call.ret[1] = <<"i", "p", "_", "a", "d", "d", "r", "e", "s", "s">>

\* C18 amended: format_snake_case("UserID") = "user_id" and
\* format_snake_case("IPAddress") = "ipaddress"; in general the result is
\* the argument with its ASCII capitals in lower case and one underscore put
\* before each capital that follows a character which is neither a capital
\* nor an underscore, and nowhere else, so consecutive capitals stay joined.
C18_SnakeCaseSegments ==
    (call.fn = "format_snake_case" /\ call.ret # <<>>)
    => LET x == call.arg
           y == call.ret[1]
       IN  /\ x = UserID => y = <<"u", "s", "e", "r", "_", "i", "d">>
           /\ x = IPAddress => y = <<"i", "p", "a", "d", "d", "r", "e", "s", "s">>
           /\ Len(y) = Len(x) + Cardinality({j \in 1..Len(x) : starts_segment(x, j)})
           /\ \A i \in 1..Len(x) :
                /\ y[snake_position(x, i)] = to_ascii_lowercase(x[i])
                /\ starts_segment(x, i) => y[snake_position(x, i) - 1] = "_"

C18_Witness ==
    /\ call.fn = "format_snake_case"
    /\ call.arg = IPAddress
    /\ Len(call.ret) = 1
    /\ call.ret[1] = <<"i", "p", "a", "d", "d", "r", "e", "s", "s">>

\* C19: format_column_value renders a null value of every kind as the
\* text NULL, without panicking.
C19_NullIsRenderedAsNULL ==
    (call.fn = "format_column_value" /\ call.ret # <<>> /\ ~call.arg.val.some)
    => call.ret[1] = Returned(NULL)

\* C20: a non-null numeric is rendered, between quotes, as the digits of
\* int_part, a point, and the digits of |dec_part| followed by as many
\* zeros as are needed to reach scale digits: (123, 45, 2) gives '123.45'
\* and (0, 5, 3) gives '0.500'.
C20_NumericIsRightPadded ==
    (call.fn = "format_numeric_value" /\ call.ret # <<>> /\ call.arg.some)
    => LET n == call.arg.v
           text == call.ret[1].text
           int_text == to_string(n.int_part)
           dec_text == digits(abs(n.dec_part))
           width == IF n.scale > Len(dec_text) THEN n.scale ELSE Len(dec_text)
           point == Len(int_text) + 2
       IN  /\ ~call.ret[1].panics
           /\ (n.int_part = 123 /\ n.dec_part = 45 /\ n.scale = 2)
              => text = <<"'", "1", "2", "3", ".", "4", "5", "'">>
           /\ (n.int_part = 0 /\ n.dec_part = 5 /\ n.scale = 3)
              => text = <<"'", "0", ".", "5", "0", "0", "'">>
           /\ Len(text) = Len(int_text) + width + 3
           /\ text[1] = "'" /\ text[Len(text)] = "'" /\ text[point] = "."
           /\ \A i \in 1..Len(int_text) : text[1 + i] = int_text[i]
           /\ \A i \in 1..width :
                text[point + i] = IF i <= Len(dec_text) THEN dec_text[i] ELSE "0"

C20_Witness ==
    /\ call.fn = "format_numeric_value"
    /\ call.arg = Some([int_part |-> 0, dec_part |-> 5, scale |-> 3])
    /\ call.ret = <<Returned(<<"'", "0", ".", "5", "0", "0", "'">>)>>

\* a call of map_schema that has returned a mapped schema
map_schema_returned ==
    call.fn = "map_schema" /\ call.ret # <<>> /\ ~call.ret[1].panics

\* the mapping map_schema looks up for the i-th source column of the call
mapping_of(i) == call.arg.mappings[call.arg.table_schema[i].data_type]

\* C21: a source column whose character_maximum_length is -1 and whose
\* mapping has type_parameters set is mapped to the length 65535, whatever
\* the max_characters_length of the mapping is.
C21_MaxLengthBecomes65535 ==
    map_schema_returned =>
        \A i \in 1..Len(call.arg.table_schema) :
            (/\ call.arg.table_schema[i].character_maximum_length = Some(-1)
             /\ mapping_of(i).type_parameters)
            => call.ret[1].text[i].character_maximum_length = Some(65535)

C21_Witness ==
    /\ map_schema_returned
    /\ \E i \in 1..Len(call.arg.table_schema) :
          /\ call.arg.table_schema[i].character_maximum_length = Some(-1)
          /\ mapping_of(i).type_parameters
          /\ mapping_of(i).max_characters_length = Some(u32(255))
          /\ call.ret[1].text[i].character_maximum_length = Some(65535)

\* C22: a source column whose numeric_scale is 0 is mapped to the
\* numeric_scale None, whether or not its mapping has a default
\* numeric_scale and whatever its type_parameters is.
C22_ZeroScaleBecomesNone ==
    map_schema_returned =>
        \A i \in 1..Len(call.arg.table_schema) :
            call.arg.table_schema[i].numeric_scale = Some(0)
            => call.ret[1].text[i].numeric_scale = None

C22_Witness ==
    /\ map_schema_returned
    /\ \E i \in 1..Len(call.arg.table_schema) :
          /\ call.arg.table_schema[i].numeric_scale = Some(0)
          /\ mapping_of(i).type_parameters
          /\ mapping_of(i).numeric_scale = Some(u32(4))
          /\ call.ret[1].text[i].numeric_scale = None

\* C23: the schema map_schema returns has one column per source column, in
\* the order of the source columns: its i-th column is what map_schema
\* returns for the i-th source column alone, and its data_type is the
\* to_type of the mapping of the data_type of the i-th source column.
C23_OneMappedColumnPerSourceColumn ==
    map_schema_returned =>
        /\ Len(call.ret[1].text) = Len(call.arg.table_schema)
        /\ \A i \in 1..Len(call.arg.table_schema) :
              /\ call.ret[1].text[i].data_type = mapping_of(i).to_type
              /\ <<call.ret[1].text[i]>> =
                    map_schema(call.arg.mappings, <<call.arg.table_schema[i]>>,
                               call.arg.format)

C23_Witness ==
    /\ map_schema_returned
    /\ Len(call.arg.table_schema) = 2
    /\ call.arg.table_schema[1].data_type = "int"
    /\ call.arg.table_schema[2].data_type = "varchar"
    /\ call.ret[1].text[1].data_type = "int"
    /\ call.ret[1].text[2].data_type = "text"

\* C24: a column of a mapped schema whose mapping has type_parameters unset
\* has no character_maximum_length, no numeric_precision and no
\* numeric_scale, whatever the source column and the defaults of the mapping.
C24_NoParametersWithoutTypeParameters ==
    map_schema_returned =>
        \A i \in 1..Len(call.arg.table_schema) :
            ~mapping_of(i).type_parameters
            => /\ call.ret[1].text[i].character_maximum_length = None
               /\ call.ret[1].text[i].numeric_precision = None
               /\ call.ret[1].text[i].numeric_scale = None

C24_Witness ==
    /\ map_schema_returned
    /\ Len(call.arg.table_schema) = 2
    /\ \A i \in 1..2 :
          /\ ~mapping_of(i).type_parameters
          /\ mapping_of(i).max_characters_length = Some(u32(255))
          /\ mapping_of(i).numeric_precision = Some(18)
    /\ call.arg.table_schema[1].character_maximum_length = Some(255)
    /\ call.arg.table_schema[2].numeric_scale = Some(2)
    /\ call.ret[1].text[1].character_maximum_length = None
    /\ call.ret[1].text[2].numeric_scale = None

\* C25: a constraint task that commits has sent its session, in this
\* order, the disabling of foreign-key checking, the ALTER TABLE, the
\* re-enabling of foreign-key checking and the commit; a task whose
\* ALTER TABLE fails does not commit.
C25_ConstraintTaskStatementOrder ==
    \A t \in TableNames :
        /\ ctask[t].outcome = "committed"
           => Tail(ctask[t].session) =
                <<FkChecksOff, AlterTableStmt, FkChecksOn, CommitStmt>>
        /\ ctask[t].alter \in {"fault", "rejected"}
           => /\ ctask[t].outcome # "committed"
              /\ \A i \in 1..Len(ctask[t].session) : ctask[t].session[i] # CommitStmt

\* C26: when execute_transactional_query has returned, with Ok or with an
\* error, the connection it used has foreign-key checking enabled: no
\* connection goes back to the pool with foreign-key checking disabled.
C26_ForeignKeyChecksRestored ==
    \A t \in TableNames : \A i \in 1..Len(executed[t]) : executed[t][i].fk_checks

\* C27: a flush is all or nothing: when execute_transactional_query returns
\* Ok the rows of the batch have been added to the destination table, when
\* it returns an error the destination is as it was before the call; no
\* other table changes.
C27_FlushIsAllOrNothing ==
    [][\A t \in TableNames :
          Len(executed'[t]) = Len(executed[t]) + 1
          => LET b == executed'[t][Len(executed'[t])]
                 out == output_table_name(t)
             IN  IF b.ok
                 THEN dest' = [dest EXCEPT ![out].rows = @ + Cardinality(batch_rows(b))]
                 ELSE dest' = dest]_vars

C27_Witness ==
    \E t \in TableNames :
        /\ Len(executed[t]) = 2
        /\ executed[t][1].ok /\ Cardinality(batch_rows(executed[t][1])) = 2
        /\ ~executed[t][2].ok /\ ~executed[t][2].fk_checks
        /\ dest0[output_table_name(t)].rows = 0
        /\ dest[output_table_name(t)].rows = 2
        /\ task[t].outcome = "err"

\* execute_batch of the task of t has been called and has not returned
batch_in_flight(t) == task[t].pc \in {"flush", "final"}

\* the rows of the source table in a batch text
query_rows(q) == {q[i].idx : i \in {j \in 1..Len(q) : q[j].kind = "row"}}

\* C28: the batches of one table are executed one after the other and in
\* source order: every row of a batch comes after every row of the earlier
\* batches of its table, the batch in flight included, and a task with a
\* batch in flight takes no step but the return of that batch; batches of
\* different tables can be in flight at once.
C28_BatchesOfATableAreSequential ==
    /\ [](\A t \in TableNames :
            /\ \A i, j \in 1..Len(executed[t]) :
                  i < j => \A r \in batch_rows(executed[t][i]) :
                             \A r2 \in batch_rows(executed[t][j]) : r < r2
            /\ batch_in_flight(t)
               => \A i \in 1..Len(executed[t]) :
                     \A r \in batch_rows(executed[t][i]) :
                        \A r2 \in query_rows(task[t].insert_query) : r < r2)
    /\ [][\A t \in TableNames :
            (batch_in_flight(t) /\ task'[t] # task[t])
            => /\ Len(executed'[t]) = Len(executed[t]) + 1
               /\ executed'[t][Len(executed'[t])].query = task[t].insert_query
               /\ ~batch_in_flight(t)']_vars

C28_Witness ==
    \E t, u \in TableNames :
        /\ t # u
        /\ batch_in_flight(t) /\ batch_in_flight(u)
        /\ Len(executed[t]) = 1
        /\ batch_rows(executed[t][1]) = {1}
        /\ query_rows(task[t].insert_query) = {2}

\* the task of t waits for a connection that its pool cannot give
waits_for_connection(t) ==
    \/ task[t].pc \in {"schema", "open"} /\ ~source_connection_free
    \/ task[t].pc \in {"exists", "count", "create", "flush", "final"} /\ ~dest_connection_free

\* every running task holds a pooled connection and waits for another
pool_deadlock ==
    /\ permit_holders # {}
    /\ \A t \in permit_holders : t \in source_connections_held /\ waits_for_connection(t)

\* C29: with both pools as large as max_concurrent_tasks, no state is
\* reached in which every running task holds a pooled connection and waits
\* for another, and under fair scheduling every spawned migration task
\* completes and run_migration returns.
C29_TasksCompleteAndRunMigrationReturns ==
    /\ [](source_pool_size >= options.max_concurrent_tasks
            /\ dest_pool_size >= options.max_concurrent_tasks
          => ~pool_deadlock)
    /\ (run_pc = "spawn") ~> (every_task_finished /\ run_pc \in {"constrain", "done"})

\* the steps from one phase of a run to the next: Preflight (packet check),
\* table enumeration and Reset, Migrate (spawn and join), Constrain, Done
phase_steps ==
    {<<"preflight", "fetch">>, <<"fetch", "reset">>, <<"reset", "spawn">>,
     <<"spawn", "join">>, <<"join", "constrain">>, <<"join", "done">>,
     <<"constrain", "done">>,
     <<"preflight", "failed">>, <<"fetch", "failed">>, <<"reset", "failed">>,
     <<"join", "panicked">>}

no_task_spawned ==
    /\ spawned = 0
    /\ \A t \in TableNames : task[t].pc = "unspawned" /\ ctask[t].pc = "none"

\* C30: a run goes through its phases in the order Preflight, Reset,
\* Migrate, Constrain, Done: Reset has finished when a migration task
\* exists, the migration tasks have finished when a constraint task
\* exists, and a run in which Preflight,
\* the table enumeration or Reset fails ends in failure there, with no
\* migration or constraint task ever spawned.
C30_PhasesInOrder ==
    /\ [](/\ (\E t \in TableNames : task[t].pc # "unspawned")
              => run_pc \in {"spawn", "join", "constrain", "done", "panicked"}
          /\ (\E t \in TableNames : ctask[t].pc # "none")
              => run_pc \in {"constrain", "done"} /\ every_task_finished
          /\ run_pc \in {"preflight", "fetch", "reset", "failed"} => no_task_spawned
          /\ run_pc = "failed"
              => run_result = "err"
                 /\ run_error \in {"packet_query", "packet_size", "fetch_tables", "no_tables",
                                   "no_whitelisted_tables", "reset_tables"})
    /\ [][/\ run_pc' # run_pc => <<run_pc, run_pc'>> \in phase_steps
          /\ (run_pc \in {"preflight", "fetch", "reset"} /\ run_error' # run_error)
              => run_pc' = "failed" /\ dest' = dest
          /\ run_pc = "failed" => UNCHANGED vars]_vars

C30_Witness ==
    /\ run_pc = "done"
    /\ options.constraints
    /\ dest0[Cust].rows > 0
    /\ \A t \in {OrderItem, Order_Item, Cust} : task[t].pc = "done"
    /\ \E t \in TableNames : ctask[t].outcome = "committed"

\* C31: when run_migration is over, every whitelisted table of the source
\* has exactly one outcome, a MigrationResult or an error: the successes and
\* the errors of process_migration_results are disjoint and together make up
\* the migrated tables, and the errors have been handed over for reporting.
C31_OneOutcomePerTable ==
    run_pc \in {"constrain", "done", "panicked"}
    => /\ tables = whitelisted_source_tables
       /\ \A i, j \in 1..Len(tables) : tables[i] = tables[j] => i = j
       /\ \A t \in SeqToSet(tables) : task[t].outcome \in {"ok", "err"}
       /\ successful_results \cup migration_errors = SeqToSet(tables)
       /\ successful_results \cap migration_errors = {}
       /\ run_pc # "panicked"

\* C32: the created of a MigrationResult is true exactly when the task of
\* the table issued CREATE TABLE, which is exactly when the table was absent
\* at the task's existence check; no task issues CREATE TABLE for a table
\* it found existing, and only a MigrationResult says created.
C32_CreatedIffCreateTableIssued ==
    \A t \in TableNames :
        /\ task[t].outcome = "ok"
           => /\ task[t].created <=> task[t].create_issued
              /\ task[t].created <=> ~task[t].table_exists
        /\ task[t].create_issued => ~task[t].table_exists
        /\ task[t].created => task[t].outcome = "ok"

C32_Witness ==
    /\ run_pc = "done"
    /\ \E t, u \in TableNames :
          /\ task[t].outcome = "ok" /\ task[t].created /\ task[t].create_issued
          /\ task[u].outcome = "ok" /\ ~task[u].created /\ task[u].table_exists
          /\ dest[output_table_name(t)].exists /\ ~dest0[output_table_name(t)].exists

\* the i32 n is the number the u32 value stands for
i32_is_u32(n, value) == value[1] < 32768 /\ n = value[1] * 65536 + value[2]

\* C33: with type_parameters set, the mapped character_maximum_length is
\* the source length when that lies in 1..65535; when the source length is
\* absent or any other value but -1, it is the max_characters_length of the
\* mapping, and None when the mapping has none.
C33_LengthKeptOrDefault ==
    map_schema_returned =>
        \A i \in 1..Len(call.arg.table_schema) :
            LET length == call.arg.table_schema[i].character_maximum_length
                default == mapping_of(i).max_characters_length
                mapped == call.ret[1].text[i].character_maximum_length
            IN  mapping_of(i).type_parameters
                => /\ (length.some /\ length.v >= 1 /\ length.v <= 65535)
                      => mapped = length
                   /\ (~length.some \/ (length.v # -1 /\ (length.v < 1 \/ length.v > 65535)))
                      => /\ mapped.some <=> default.some
                         /\ default.some => i32_is_u32(mapped.v, default.v)

\* the call of format_column_value on a present SmallDateTime has returned
small_datetime_decoded ==
    /\ call.fn = "format_column_value"
    /\ call.arg.kind = "SmallDateTime"
    /\ call.arg.val.some
    /\ call.ret # <<>>

\* C34: a present SmallDateTime of d days and m whole minutes, 0 <= m < 1440,
\* is decoded without a panic, to the date 1900-01-01 + d and the time
\* (m div 60) hours, (m mod 60) minutes, 0 seconds
C34_SmallDateTimeDecoded ==
    small_datetime_decoded
    => LET d == call.arg.val.v.days
           m == call.arg.val.v.seconds_fragments
       IN  /\ ~call.ret[1].panics
           /\ call.ret[1].text
                = format_naive_datetime(add_days(NaiveDate(1900, 1, 1), d),
                                        [hour |-> m \div 60, min |-> m % 60, sec |-> 0])

\* main and main.rs run_migration: an Err of run() is logged and Ok(()) is
\* returned, so the process exits with failure only when the run panicked
exits_with_success == run_result # "panic"

\* C35: a finished run in which some table's migration ended in error is not
\* reported as a success, neither by the result of run() nor by the exit
\* status of the process
C35_FailedTableFailsTheRun ==
    (run_pc = "done" /\ migration_errors # {})
    => /\ run_result # "ok"
       /\ ~exits_with_success

\* the task of table t has been spawned
task_spawned(t) == task[t].pc # "unspawned"

\* C36: the tables of a run have pairwise distinct output table names, so
\* no two spawned tasks work on the same destination table
C36_DistinctDestinationTables ==
    /\ \A i, j \in 1..Len(tables) :
         i # j => output_table_name(tables[i]) # output_table_name(tables[j])
    /\ \A t, u \in TableNames :
         (t # u /\ task_spawned(t) /\ task_spawned(u))
         => output_table_name(t) # output_table_name(u)

\* the row tuples of a batch text, in the order of the text
RECURSIVE row_tuples(_)
row_tuples(q) ==
    IF q = <<>> THEN <<>>
    ELSE (IF Head(q).kind = "row" THEN <<Head(q).idx>> ELSE <<>>) \o row_tuples(Tail(q))

\* the row tuples of the executed batches, in execution order
RECURSIVE executed_rows(_)
executed_rows(batches) ==
    IF batches = <<>> THEN <<>>
    ELSE row_tuples(Head(batches).query) \o executed_rows(Tail(batches))

\* migrate_table_rows of t returned Ok(total_transaction_count)
rows_migrated(t) == task[t].pc = "done" /\ task[t].outcome = "ok"

\* C37: when no batch fails, the row tuples of the executed batches of a
\* table, in execution order, are the source rows in source order, each one
\* once, and the count migrate_table_rows returns is the number of source
\* rows; while the rows are being read, the executed batches and the
\* accumulator together hold the rows read so far
C37_BatchesCarryTheSourceRows ==
    \A t \in TableNames :
        /\ rows_migrated(t)
           => /\ executed_rows(executed[t]) = [i \in 1..Len(source_rows[t]) |-> i]
              /\ task[t].total_transaction_count = Len(source_rows[t])
        /\ task[t].pc = "next"
           => executed_rows(executed[t]) \o row_tuples(task[t].insert_query)
                = [i \in 1..task[t].pos |-> i]

C37_Witness ==
    \E t \in TableNames :
        /\ rows_migrated(t)
        /\ Len(executed[t]) = 2
        /\ row_tuples(executed[t][1].query) = <<1, 2>>
        /\ row_tuples(executed[t][2].query) = <<3>>
        /\ task[t].total_transaction_count = 3

\* a batch text: the INSERT preamble, then one row tuple or more with one
\* comma between consecutive tuples and none before the first
well_formed_batch(q) ==
    /\ Len(q) >= 2
    /\ Len(q) % 2 = 0
    /\ q[1] = StmtTok
    /\ \A i \in 2..Len(q) : IF i % 2 = 0 THEN q[i].kind = "row" ELSE q[i] = CommaTok

\* C38: every executed batch text, and every one handed to execute_batch, is
\* the INSERT preamble followed by at least one row tuple, with exactly one
\* comma between consecutive tuples and none before the first; a source table
\* with no rows has no executed batch
C38_BatchTextIsWellFormed ==
    \A t \in TableNames :
        /\ \A i \in 1..Len(executed[t]) : well_formed_batch(executed[t][i].query)
        /\ batch_in_flight(t) => well_formed_batch(task[t].insert_query)
        /\ source_rows[t] = <<>> => executed[t] = <<>>

C38_Witness ==
    \E t \in TableNames :
        /\ Len(executed[t]) = 2
        /\ executed[t][1].query = <<StmtTok, RowTok(1), CommaTok, RowTok(2)>>
        /\ executed[t][2].query = <<StmtTok, RowTok(3)>>

\* C39: a task whose schema fetch or existence check failed has issued
\* neither CREATE TABLE nor an INSERT batch, a task whose CREATE TABLE failed
\* has issued no INSERT batch, and a task hands a batch to the destination
\* only after it found its table or created it
C39_WritesOnlyAfterEarlierStepsSucceeded ==
    \A t \in TableNames :
        /\ task[t].error \in {"get_table_schema", "mapping_not_found", "table_exists"}
           => ~task[t].create_issued /\ executed[t] = <<>>
        /\ task[t].error = "create_table" => executed[t] = <<>>
        /\ (executed[t] # <<>> \/ batch_in_flight(t))
           => /\ task[t].table_exists \/ task[t].create_issued
              /\ dest[output_table_name(t)].exists

C39_Witness ==
    \E t, u \in TableNames :
        /\ task[t].pc = "done" /\ task[t].error = "create_table"
        /\ task[t].create_issued /\ executed[t] = <<>>
        /\ ~dest[output_table_name(t)].exists
        /\ task[u].pc = "done" /\ task[u].error = "table_exists"
        /\ ~task[u].create_issued /\ executed[u] = <<>>

\* the task of t is in the loop of migrate_table_rows or at the batch after it
in_row_loop(t) == task[t].pc \in {"next", "flush", "final"}

\* insert_query.len()
insert_query_len(t) ==
    QueryBytes(task[t].insert_query, insert_statement_len(t), source_rows[t])

\* C40: between the iterations of the loop of migrate_table_rows total_bytes
\* is the byte length of the accumulated query text when the accumulator
\* holds a row tuple and the length of the INSERT preamble when it holds
\* none, and a flush resets the counter together with the accumulator: the
\* iteration that flushed ends with the preamble and its own row tuple in
\* the accumulator and their two lengths in the counter
C40_TotalBytesTracksTheAccumulator ==
    /\ [](\A t \in TableNames :
            in_row_loop(t)
            => /\ task[t].total_bytes =
                    IF task[t].insert_query # <<>> THEN insert_query_len(t)
                    ELSE insert_statement_len(t)
               /\ task[t].transaction_count = Cardinality(query_rows(task[t].insert_query)))
    /\ [][\A t \in TableNames :
            (task[t].pc = "flush" /\ task'[t].pc = "next")
            => /\ task'[t].insert_query = <<StmtTok, RowTok(task[t].pos)>>
               /\ task'[t].total_bytes = insert_statement_len(t)
                                           + value_set_len(source_rows[t][task[t].pos])
               /\ task'[t].transaction_count = 1]_vars

C40_Witness ==
    \E t \in TableNames :
        /\ task[t].pc = "next"
        /\ Len(executed[t]) = 1
        /\ Cardinality(batch_rows(executed[t][1])) = 2
        /\ task[t].insert_query = <<StmtTok, RowTok(3)>>
        /\ task[t].total_bytes = insert_statement_len(t) + value_set_len(source_rows[t][3])
        /\ task[t].total_bytes < executed[t][1].bytes

====
